---------------------------- MODULE Spec2Model ----------------------------
(***************************************************************************)
(* A model of backend/server.js of the Carbon code-image generator: the    *)
(* CarbonGenerator class (cache store client, shared browser, the          *)
(* POST /api/generate pipeline, the fallback endpoint, shutdown) and its   *)
(* pure parts (cache key, escapeHTML, the generated template and the       *)
(* highlighter script embedded in it).                                     *)
(*                                                                         *)
(* JavaScript strings are TLA+ strings; Len, SubSeq and \o act on them.    *)
(***************************************************************************)
EXTENDS Integers, Sequences, FiniteSets, TLC

VARIABLES
    \* ---- process-wide state of CarbonGenerator (server.js:22-34)
    puppeteer,       \* TRUE iff require('puppeteer') succeeded (server.js:14-19)
    redisClient,     \* this.redisClient: "null" or "client"
    redisConn,       \* connection of the client: none/connecting/open/failed/closed
    store,           \* the external key-value store: key -> entry
    browser,         \* this.browser: "null" or "browser"
    browserProc,     \* the engine process: none/launching/running/failed/crashed/closed
    isBrowserReady,  \* this.isBrowserReady
    closeCalls,      \* number of browser.close() invocations so far
    shut,            \* position of each shutdown() invocation
    exited,          \* process.exit(0) has run
    \* ---- one POST /api/generate handler invocation per request id
    req,
    \* ---- the last POST /api/generate/fallback exchange
    fb,
    \* ---- two request bodies and the cache keys computed for them
    kreq, kkeys,
    \* ---- one document: the input of generateHTMLTemplate, how far the
    \* ---- browser has got with it, the built document, the text content of
    \* ---- its code element and the markup the script wrote back
    tin, tstage, tdoc, ttext, thtml,
    \* ---- NODE_ENV and the bodies of the error responses sent so far
    nodeEnv, eresps,
    \* ---- the last response of GET /api/health or GET /api/stats
    probe

svars == <<puppeteer, redisClient, redisConn, store, browser, browserProc,
           isBrowserReady, closeCalls, shut, exited, req, fb>>

kvars == <<kreq, kkeys>>

tvars == <<tin, tstage, tdoc, ttext, thtml>>

evars == <<nodeEnv, eresps>>

hvars == <<probe>>

vars == <<svars, kvars, tvars, evars, hvars>>

-----------------------------------------------------------------------------
(* Strings *)

Ch(s, i) == SubSeq(s, i, i)

Min(a, b) == IF a < b THEN a ELSE b

\* String.prototype.substring(0, n)
Substring0(s, n) == SubSeq(s, 1, Min(n, Len(s)))

\* the least element of a non-empty set of numbers
Least(S) == CHOOSE m \in S : \A x \in S : m <= x

\* the first of the positions hits, or 0
FirstPos(hits) == IF hits = {} THEN 0 ELSE Least(hits)

StartsWith(s, i, w) == i + Len(w) - 1 <= Len(s) /\ SubSeq(s, i, i + Len(w) - 1) = w

\* String.prototype.indexOf(w, i), 1-based, 0 when absent
Find(s, i, w) == FirstPos({j \in i..Len(s) : StartsWith(s, j, w)})

RECURSIVE Repeat(_, _)
Repeat(s, n) ==
    IF n = 0 THEN ""
    ELSE IF n % 2 = 0 THEN LET h == Repeat(s, n \div 2) IN h \o h
    ELSE s \o Repeat(s, n - 1)

-----------------------------------------------------------------------------
(* The cache key: `carbon:${Buffer.from(code).toString('base64')}:${JSON.stringify(options)}` *)

\* ASCII 32..95 and 97..126 (the UTF-8 bytes Buffer.from gives for them)
Ascii32 == " !\"#$%&'()*+,-./0123456789:;<=>?@ABCDEFGHIJKLMNOPQRSTUVWXYZ[\\]^_"
Ascii97 == "abcdefghijklmnopqrstuvwxyz{|}~"

CharCode(c) ==
    IF c = "\n" THEN 10
    ELSE IF c = "\t" THEN 9
    ELSE IF \E i \in 1..Len(Ascii32) : Ch(Ascii32, i) = c
         THEN 31 + (CHOOSE i \in 1..Len(Ascii32) : Ch(Ascii32, i) = c)
         ELSE 96 + (CHOOSE i \in 1..Len(Ascii97) : Ch(Ascii97, i) = c)

\* Buffer.from(code): the bytes of the string
Bytes(s) == [i \in 1..Len(s) |-> CharCode(Ch(s, i))]

B64Alphabet == "ABCDEFGHIJKLMNOPQRSTUVWXYZabcdefghijklmnopqrstuvwxyz0123456789+/"

B64Char(n) == Ch(B64Alphabet, n + 1)

\* the four characters of the g-th group of three bytes, '=' padded
B64Group(b, g) ==
    LET i == 3 * g - 2
    IN  IF i + 2 <= Len(b) THEN
            B64Char(b[i] \div 4) \o B64Char((b[i] % 4) * 16 + b[i + 1] \div 16)
                \o B64Char((b[i + 1] % 16) * 4 + b[i + 2] \div 64) \o B64Char(b[i + 2] % 64)
        ELSE IF i + 1 <= Len(b) THEN
            B64Char(b[i] \div 4) \o B64Char((b[i] % 4) * 16 + b[i + 1] \div 16)
                \o B64Char((b[i + 1] % 16) * 4) \o "="
        ELSE
            B64Char(b[i] \div 4) \o B64Char((b[i] % 4) * 16) \o "=="

\* the groups lo..hi, joined
RECURSIVE B64Groups(_, _, _)
B64Groups(b, lo, hi) ==
    IF lo > hi THEN ""
    ELSE IF lo = hi THEN B64Group(b, lo)
    ELSE LET mid == (lo + hi) \div 2
         IN  B64Groups(b, lo, mid) \o B64Groups(b, mid + 1, hi)

\* Buffer.prototype.toString('base64'): three bytes to four sextets
Base64(b) == B64Groups(b, 1, (Len(b) + 2) \div 3)

(* An options object is the sequence of its own properties in insertion    *)
(* order, each <<name, value>>; a value is [t |-> type, v |-> text], the   *)
(* types being "str", "num" and "bool" (v is the JSON literal for the last *)
(* two).  Names are distinct within one object.                            *)
Str(v) == [t |-> "str", v |-> v]
Num(v) == [t |-> "num", v |-> v]
Bool(v) == [t |-> "bool", v |-> v]

\* JSON string quoting (QuoteJSONString)
RECURSIVE JSONEscape(_)
JSONEscape(s) ==
    IF s = "" THEN ""
    ELSE (CASE Head(s) = "\"" -> "\\\""
            [] Head(s) = "\\" -> "\\\\"
            [] Head(s) = "\n" -> "\\n"
            [] Head(s) = "\t" -> "\\t"
            [] OTHER -> Head(s)) \o JSONEscape(Tail(s))

JSONValue(val) == IF val.t = "str" THEN "\"" \o JSONEscape(val.v) \o "\"" ELSE val.v

RECURSIVE JSONProps(_)
JSONProps(o) ==
    IF Len(o) = 0 THEN ""
    ELSE "\"" \o JSONEscape(o[1][1]) \o "\":" \o JSONValue(o[1][2])
         \o (IF Len(o) = 1 THEN "" ELSE "," \o JSONProps(Tail(o)))

\* JSON.stringify(options): own properties in insertion order
JSONStringify(o) == "{" \o JSONProps(o) \o "}"

cacheKey(code, options) ==
    "carbon:" \o Base64(Bytes(code)) \o ":" \o JSONStringify(options)

\* property lookup with a destructuring default (server.js:161-172)
Has(o, name) == \E i \in 1..Len(o) : o[i][1] = name
Get(o, name, default) ==
    IF Has(o, name) THEN o[CHOOSE i \in 1..Len(o) : o[i][1] = name][2] ELSE default

-----------------------------------------------------------------------------
(* escapeHTML (server.js:446-457) *)

\* str.replace(/c/g, to) for a one-character pattern c
RECURSIVE ReplaceChar(_, _, _)
ReplaceChar(s, c, to) ==
    LET j == Find(s, 1, c)
    IN  IF j = 0 THEN s
        ELSE SubSeq(s, 1, j - 1) \o to \o ReplaceChar(SubSeq(s, j + 1, Len(s)), c, to)

escapeHTML(str) ==
    IF str = "" THEN ""
    ELSE LET s1 == ReplaceChar(str, "&", "&amp;")
             s2 == ReplaceChar(s1, "<", "&lt;")
             s3 == ReplaceChar(s2, ">", "&gt;")
             s4 == ReplaceChar(s3, "\"", "&quot;")
             s5 == ReplaceChar(s4, "'", "&#039;")
             s6 == ReplaceChar(s5, "\n", "<br>")
             s7 == ReplaceChar(s6, "\t", "&nbsp;&nbsp;&nbsp;&nbsp;")
         IN  ReplaceChar(s7, " ", "&nbsp;")

-----------------------------------------------------------------------------
(* generateHTMLTemplate (server.js:160-444).  The document is the record   *)
(* of the values the template literal interpolates; the fixed text around  *)
(* them is the same for every call.                                        *)

themes ==
    [dark |-> [background |-> "#262424", text |-> "#f8f8f2", comment |-> "#6272a4",
               keyword |-> "#ff79c6", string |-> "#f1fa8c", number |-> "#bd93f9",
               function |-> "#50fa7b", class |-> "#8be9fd", variable |-> "#ffb86c",
               operator |-> "#ff79c6"],
     light |-> [background |-> "#ffffff", text |-> "#383a42", comment |-> "#a0a1a7",
                keyword |-> "#a626a4", string |-> "#50a14f", number |-> "#986801",
                function |-> "#4078f2", class |-> "#c18401", variable |-> "#e45649",
                operator |-> "#a626a4"],
     solarized |-> [background |-> "#002b36", text |-> "#839496", comment |-> "#586e75",
                    keyword |-> "#859900", string |-> "#2aa198", number |-> "#d33682",
                    function |-> "#b58900", class |-> "#268bd2", variable |-> "#cb4b16",
                    operator |-> "#859900"]]

\* names every object inherits: themes[name] is then a truthy value that
\* is no palette, and each of its color properties is undefined
ObjectPrototypeNames ==
    {"constructor", "toString", "valueOf", "hasOwnProperty", "isPrototypeOf",
     "propertyIsEnumerable", "toLocaleString", "__proto__"}

UndefinedPalette ==
    [background |-> "undefined", text |-> "undefined", comment |-> "undefined",
     keyword |-> "undefined", string |-> "undefined", number |-> "undefined",
     function |-> "undefined", class |-> "undefined", variable |-> "undefined",
     operator |-> "undefined"]

\* const themeColors = themes[theme] || themes.dark
themeColors(theme) ==
    IF theme \in DOMAIN themes THEN themes[theme]
    ELSE IF theme \in ObjectPrototypeNames THEN UndefinedPalette
    ELSE themes.dark

Contains(s, c) == \E i \in 1..Len(s) : Ch(s, i) = c

ToUpperChar(c) ==
    IF \E i \in 1..26 : Ch(Ascii97, i) = c
    THEN Ch(Ascii32, 33 + (CHOOSE i \in 1..26 : Ch(Ascii97, i) = c))
    ELSE c

RECURSIVE ToUpperCase(_)
ToUpperCase(s) == IF s = "" THEN "" ELSE ToUpperChar(Head(s)) \o ToUpperCase(Tail(s))

\* the truth value of an option in a ${x ? a : b} of the template
Truthy(val) ==
    ~ \/ (val.t = "bool" /\ val.v = "false")
      \/ (val.t = "num" /\ val.v = "0")
      \/ (val.t = "str" /\ val.v = "")

generateHTMLTemplate(code, options) ==
    LET theme == Get(options, "theme", Str("dark")).v
        backgroundColor == Get(options, "backgroundColor", Str("#262424")).v
        fontFamily == Get(options, "fontFamily", Str("Fira Code")).v
        fontSize == Get(options, "fontSize", Str("14px")).v
        language == Get(options, "language", Str("auto")).v
        showLineNumbers == Get(options, "showLineNumbers", Bool("true"))
        showWindowControls == Get(options, "showWindowControls", Bool("true"))
        padding == Get(options, "padding", Str("40px")).v
        lineHeight == Get(options, "lineHeight", Str("1.6")).v
        tabSize == Get(options, "tabSize", Num("2")).v
        colors == themeColors(theme)
        onDark(a, b) == IF theme = "dark" THEN a ELSE b
    IN  [ fontLink |-> ReplaceChar(fontFamily, " ", "+"),
          bodyBackground |-> backgroundColor,
          bodyFontFamily |-> IF Contains(fontFamily, " ")
                             THEN "'" \o fontFamily \o "'" ELSE fontFamily,
          bodyFontSize |-> fontSize,
          bodyLineHeight |-> lineHeight,
          bodyColor |-> colors.text,
          bodyPadding |-> padding,
          containerBackground |-> onDark("rgba(0, 0, 0, 0.3)", "rgba(0, 0, 0, 0.05)"),
          containerBorder |-> onDark("rgba(255, 255, 255, 0.1)", "rgba(0, 0, 0, 0.1)"),
          windowControls |-> Truthy(showWindowControls),
          headerBackground |-> onDark("rgba(0, 0, 0, 0.4)", "rgba(0, 0, 0, 0.1)"),
          headerBorder |-> onDark("rgba(255, 255, 255, 0.1)", "rgba(0, 0, 0, 0.1)"),
          titleColor |-> colors.comment,
          windowTitle |-> ToUpperCase(language),
          tabSize |-> tabSize,
          lineNumberRule |-> Truthy(showLineNumbers),
          lineNumberColor |-> colors.comment,
          lineNumberBorder |-> onDark("rgba(255, 255, 255, 0.1)", "rgba(0, 0, 0, 0.1)"),
          tokenComment |-> colors.comment,
          tokenKeyword |-> colors.keyword,
          tokenString |-> colors.string,
          tokenNumber |-> colors.number,
          tokenFunction |-> colors.function,
          tokenClass |-> colors.class,
          tokenVariable |-> colors.variable,
          tokenOperator |-> colors.operator,
          tokenPunctuation |-> colors.text,
          code |-> escapeHTML(code),
          scriptLanguage |-> language,
          scriptShowLineNumbers |-> showLineNumbers.v ]

-----------------------------------------------------------------------------
(* The browser's parse of the content of the code element: of the escaped  *)
(* text at load (server.js:373) and of the string the script assigns to    *)
(* innerHTML (server.js:439).  The result is the sequence of tokens of the *)
(* HTML tokenizer: characters, start tags and end tags.                    *)

\* U+00A0, which the model writes as "~" (no code string of the model has it)
NBSP == "~"

Letters == {Ch(Ascii97, i) : i \in 1..26} \cup {Ch(Ascii32, i) : i \in 34..59}
Digits == {Ch(Ascii32, i) : i \in 17..26}

\* the character references the tokenizer decodes in data, the form with the
\* semicolon before the legacy form without
CharRefs ==
    << <<"&amp;", "&">>, <<"&lt;", "<">>, <<"&gt;", ">">>, <<"&quot;", "\"">>,
       <<"&#039;", "'">>, <<"&#39;", "'">>, <<"&nbsp;", NBSP>>,
       <<"&amp", "&">>, <<"&lt", "<">>, <<"&gt", ">">>, <<"&quot", "\"">>,
       <<"&nbsp", NBSP>> >>

CharRefAt(s, i) ==
    IF \E k \in 1..Len(CharRefs) : StartsWith(s, i, CharRefs[k][1])
    THEN CharRefs[CHOOSE k \in 1..Len(CharRefs) :
                     /\ StartsWith(s, i, CharRefs[k][1])
                     /\ \A j \in 1..(k - 1) : ~StartsWith(s, i, CharRefs[j][1])]
    ELSE <<"&", "&">>

\* the tag name: the characters from i up to white space, "/" or ">"
TagName(s, i) ==
    LET stop == FirstPos({j \in i..Len(s) : Ch(s, j) \in {" ", "\n", "\t", "/", ">"}})
    IN  SubSeq(s, i, (IF stop = 0 THEN Len(s) + 1 ELSE stop) - 1)

TextTok(c) == [k |-> "text", v |-> c]
StartTok(n) == [k |-> "start", v |-> n]
EndTok(n) == [k |-> "end", v |-> n]

\* a run of character data is one text token
RECURSIVE ParseHTML(_, _)
ParseHTML(s, i) ==
    IF i > Len(s) THEN <<>>
    ELSE IF Ch(s, i) = "&" THEN
        LET ref == CharRefAt(s, i)
        IN  <<TextTok(ref[2])>> \o ParseHTML(s, i + Len(ref[1]))
    ELSE IF Ch(s, i) # "<" THEN
        LET next == FirstPos({j \in i..Len(s) : Ch(s, j) \in {"&", "<"}})
            stop == IF next = 0 THEN Len(s) + 1 ELSE next
        IN  <<TextTok(SubSeq(s, i, stop - 1))>> \o ParseHTML(s, stop)
    ELSE IF i = Len(s) THEN <<TextTok("<")>>
    ELSE LET c == Ch(s, i + 1)
             close == Find(s, i + 1, ">")
         IN  IF c \in Letters THEN
                 \* a start tag; one that the input ends in is dropped
                 IF close = 0 THEN <<>>
                 ELSE <<StartTok(TagName(s, i + 1))>> \o ParseHTML(s, close + 1)
             ELSE IF c = "/" THEN
                 IF i + 2 > Len(s) THEN <<TextTok("</")>>
                 ELSE IF close = 0 THEN <<>>
                 ELSE IF Ch(s, i + 2) \in Letters
                      THEN <<EndTok(TagName(s, i + 2))>> \o ParseHTML(s, close + 1)
                      \* "</>" is dropped, "</" before anything else is a comment
                      ELSE ParseHTML(s, close + 1)
             ELSE IF c \in {"!", "?"} THEN
                 \* a comment or bogus comment
                 IF close = 0 THEN <<>> ELSE ParseHTML(s, close + 1)
             ELSE <<TextTok("<")>> \o ParseHTML(s, i + 1)

\* Node.textContent: the concatenated character data
RECURSIVE textContent(_)
textContent(toks) ==
    IF Len(toks) = 0 THEN ""
    ELSE (IF toks[1].k = "text" THEN toks[1].v ELSE "") \o textContent(Tail(toks))

\* the names of the elements a parse creates
Elements(toks) == { toks[i].v : i \in {j \in 1..Len(toks) : toks[j].k = "start"} }

-----------------------------------------------------------------------------
(* highlightSyntax, the script of the generated document (server.js:379-   *)
(* 440).  MatchLen(rule, s, i) is the length of the match of the rule's    *)
(* regular expression that starts at position i of s, 0 when there is      *)
(* none; no expression of the script matches the empty string.             *)
(* The script is read as the text of lines 379-440: the backquote among    *)
(* the quotes of line 392 is not escaped in the template literal that      *)
(* holds the document, and the string rule is modelled with the two        *)
(* quotes a string of the model can hold.                                  *)

WordChars == Letters \cup Digits \cup {"_"}
HexDigits == Digits \cup {"a", "b", "c", "d", "e", "f", "A", "B", "C", "D", "E", "F"}

IsWord(s, i) == 1 <= i /\ i <= Len(s) /\ Ch(s, i) \in WordChars

\* \b between positions i-1 and i
WordBreak(s, i) == IsWord(s, i - 1) # IsWord(s, i)

\* the length of the longest run of characters of set from position i
RunLen(s, i, set) ==
    LET stop == FirstPos({j \in i..Len(s) : Ch(s, j) \notin set})
    IN  (IF stop = 0 THEN Len(s) + 1 ELSE stop) - i

\* /\/\/.*$/gm
LineCommentLen(s, i) ==
    IF StartsWith(s, i, "//") THEN 2 + RunLen(s, i + 2, {Ch(s, j) : j \in 1..Len(s)} \ {"\n"})
    ELSE 0

\* /\/\*[\s\S]*?\*\//g
BlockCommentLen(s, i) ==
    IF StartsWith(s, i, "/*") /\ Find(s, i + 2, "*/") # 0
    THEN Find(s, i + 2, "*/") + 2 - i
    ELSE 0

\* the position of the closing quote of (?:\\.|[^\\])*?\1 scanning from
\* pos, or 0: a backslash takes the next character with it unless that is
\* a line end
RECURSIVE StringEnd(_, _, _)
StringEnd(s, q, pos) ==
    LET j == FirstPos({k \in pos..Len(s) : Ch(s, k) \in {q, "\\"}})
    IN  IF j = 0 THEN 0
        ELSE IF Ch(s, j) = q THEN j
        ELSE IF j + 1 > Len(s) \/ Ch(s, j + 1) = "\n" THEN 0
        ELSE StringEnd(s, q, j + 2)

\* /(["'`])(?:\\.|[^\\])*?\1/g  (the model's strings cannot hold "`")
StringLen(s, i, quotes) ==
    IF Ch(s, i) \in quotes /\ StringEnd(s, Ch(s, i), i + 1) # 0
    THEN StringEnd(s, Ch(s, i), i + 1) + 1 - i
    ELSE 0

\* \d+\.?\d* with i digits taken: the fraction, longest first, then none
RECURSIVE FractionLen(_, _, _)
FractionLen(s, i, d2) ==
    IF WordBreak(s, i + d2) THEN d2 + 1
    ELSE IF d2 = 0 THEN 0
    ELSE FractionLen(s, i, d2 - 1)

RECURSIVE DecimalLen(_, _, _)
DecimalLen(s, i, d1) ==
    IF d1 = 0 THEN 0
    ELSE LET frac == IF StartsWith(s, i + d1, ".")
                     THEN FractionLen(s, i + d1 + 1, RunLen(s, i + d1 + 1, Digits))
                     ELSE 0
         IN  IF frac > 0 THEN d1 + frac
             ELSE IF WordBreak(s, i + d1) THEN d1
             ELSE DecimalLen(s, i, d1 - 1)

RECURSIVE HexLen(_, _, _)
HexLen(s, i, h) ==
    IF h = 0 THEN 0
    ELSE IF WordBreak(s, i + 2 + h) THEN 2 + h
    ELSE HexLen(s, i, h - 1)

\* /\b(\d+\.?\d*|0x[\da-fA-F]+)\b/g ; withHex is FALSE for the lists
\* whose number rule has no 0x alternative
NumberLen(s, i, withHex) ==
    IF ~WordBreak(s, i) THEN 0
    ELSE LET dec == DecimalLen(s, i, RunLen(s, i, Digits))
         IN  IF dec > 0 THEN dec
             ELSE IF withHex /\ StartsWith(s, i, "0x")
                  THEN HexLen(s, i, RunLen(s, i + 2, HexDigits))
                  ELSE 0

\* the first alternative of alts that matches at i with \b behind it
FirstAlt(s, i, alts) ==
    LET ok == {k \in 1..Len(alts) : StartsWith(s, i, alts[k]) /\ WordBreak(s, i + Len(alts[k]))}
    IN  IF ok = {} THEN 0 ELSE Len(alts[Least(ok)])

\* /\b(w1|w2|...)\b/g
WordsLen(s, i, words) ==
    IF WordBreak(s, i) THEN FirstAlt(s, i, words) ELSE 0

\* /(o1|o2|...)\b/g
OperatorLen(s, i, ops) == FirstAlt(s, i, ops)

\* /([{}()\[\];:,])/g
PunctuationLen(s, i, set) == IF Ch(s, i) \in set THEN 1 ELSE 0

MatchLen(rule, s, i) ==
    CASE rule.kind = "lineComment" -> LineCommentLen(s, i)
      [] rule.kind = "blockComment" -> BlockCommentLen(s, i)
      [] rule.kind = "string" -> StringLen(s, i, rule.arg)
      [] rule.kind = "number" -> NumberLen(s, i, rule.arg)
      [] rule.kind = "words" -> WordsLen(s, i, rule.arg)
      [] rule.kind = "operator" -> OperatorLen(s, i, rule.arg)
      [] rule.kind = "punctuation" -> PunctuationLen(s, i, rule.arg)

Rule(kind, arg, className) == [kind |-> kind, arg |-> arg, className |-> className]

JsKeywords ==
    <<"const", "let", "var", "function", "return", "if", "else", "for", "while",
      "switch", "case", "break", "continue", "class", "extends", "import", "export",
      "default", "async", "await", "try", "catch", "finally", "throw", "new", "this",
      "super">>

JsBuiltins ==
    <<"console", "Math", "Date", "String", "Number", "Array", "Object", "Promise", "JSON">>

JsOperators ==
    <<"=", "+", "-", "*", "/", "%", "==", "===", "!=", "!==", ">", "<", ">=", "<=",
      "&&", "||", "!", "?:", "...">>

\* patterns.javascript (server.js:389-398)
javascript ==
    << Rule("lineComment", {}, "comment"),
       Rule("blockComment", {}, "comment"),
       Rule("string", {"\"", "'"}, "string"),
       Rule("number", TRUE, "number"),
       Rule("words", JsKeywords, "keyword"),
       Rule("words", JsBuiltins, "class"),
       Rule("operator", JsOperators, "operator"),
       Rule("punctuation", {"{", "}", "(", ")", "[", "]", ";", ":", ","}, "punctuation") >>

\* const langPatterns = patterns[language] || patterns.javascript, for the
\* languages of the model ('auto' is no key of patterns)
langPatterns(language) == javascript

\* code.replace(regex, '<span class="token ' + className + '">$&</span>')
RECURSIVE ReplaceRule(_, _, _)
ReplaceRule(rule, s, i) ==
    LET j == FirstPos({k \in i..Len(s) : MatchLen(rule, s, k) > 0})
    IN  IF j = 0 THEN SubSeq(s, i, Len(s))
        ELSE LET n == MatchLen(rule, s, j)
             IN  SubSeq(s, i, j - 1)
                 \o "<span class=\"token " \o rule.className \o "\">"
                 \o SubSeq(s, j, j + n - 1) \o "</span>"
                 \o ReplaceRule(rule, s, j + n)

\* langPatterns.forEach: each rule rewrites the result of the one before
RECURSIVE ApplyRules(_, _)
ApplyRules(rules, s) ==
    IF Len(rules) = 0 THEN s
    ELSE ApplyRules(Tail(rules), ReplaceRule(rules[1], s, 1))

\* code.split('\n')
RECURSIVE Split(_, _)
Split(s, sep) ==
    LET j == Find(s, 1, sep)
    IN  IF j = 0 THEN <<s>>
        ELSE <<SubSeq(s, 1, j - 1)>> \o Split(SubSeq(s, j + 1, Len(s)), sep)

\* '' + lineNumber
RECURSIVE lineNumberText(_)
lineNumberText(n) ==
    IF n < 10 THEN Ch("0123456789", n + 1)
    ELSE lineNumberText(n \div 10) \o Ch("0123456789", (n % 10) + 1)

\* the rows of the numbering loop (server.js:428-435), from row i on
RECURSIVE NumberedRows(_, _)
NumberedRows(lines, i) ==
    IF i > Len(lines) THEN ""
    ELSE "<div class=\"line\">"
         \o "<span class=\"line-number\">" \o lineNumberText(i) \o "</span>"
         \o "<span class=\"line-content\">"
         \o (IF lines[i] = "" THEN " " ELSE lines[i]) \o "</span>"
         \o "</div>"
         \o NumberedRows(lines, i + 1)

\* the string the script assigns to codeElement.innerHTML, given the text
\* content of the code element
highlightSyntax(text, language, showLineNumbers) ==
    LET lines == Split(text, "\n")
        tokenized == ApplyRules(langPatterns(language), text)
    IN  IF showLineNumbers = "true" THEN NumberedRows(lines, 1) ELSE tokenized

-----------------------------------------------------------------------------
(* Request bodies and validation (server.js:510-535) *)

MaxCodeChars == 10000

Themes == {"dark", "light", "solarized"}

\* a validation chain that rejects from 10000 characters on
ValidationErrorsFrom10000(b) ==
    IF Len(b.code) >= MaxCodeChars THEN <<"Code too long (max 10000 chars)">> ELSE <<>>

\* /^\d+(px|em|rem)$/ matches the text of the value (server.js:520, 523)
LengthFormat(v) ==
    \E unit \in {"px", "em", "rem"} :
        /\ Len(v) > Len(unit)
        /\ SubSeq(v, Len(v) - Len(unit) + 1, Len(v)) = unit
        /\ \A i \in 1..(Len(v) - Len(unit)) : Ch(v, i) \in Digits

\* the validation chain of body('code'), body('options.theme'),
\* body('options.fontSize') and body('options.padding')
ValidationErrors(b) ==
    (IF b.code = "" THEN <<"Code is required">> ELSE <<>>)
    \o (IF Len(b.code) > MaxCodeChars THEN <<"Code too long (max 10000 chars)">> ELSE <<>>)
    \o (IF Has(b.options, "theme")
           /\ ~(Get(b.options, "theme", Str("")).t = "str"
                /\ Get(b.options, "theme", Str("")).v \in Themes)
        THEN <<"Invalid theme">> ELSE <<>>)
    \o (IF Has(b.options, "fontSize")
           /\ ~LengthFormat(Get(b.options, "fontSize", Str("")).v)
        THEN <<"Invalid font size format">> ELSE <<>>)
    \o (IF Has(b.options, "padding")
           /\ ~LengthFormat(Get(b.options, "padding", Str("")).v)
        THEN <<"Invalid padding format">> ELSE <<>>)

\* generateHTMLTemplate throws a TypeError on fontFamily.includes(' ') or
\* language.toUpperCase() when the option is present and not a string
TemplateThrows(options) ==
    \/ Get(options, "fontFamily", Str("Fira Code")).t # "str"
    \/ /\ Truthy(Get(options, "showWindowControls", Bool("true")))
       /\ Get(options, "language", Str("auto")).t # "str"

\* the request bodies of the server specification: a renderable one, one
\* whose template build throws, one that fails validation
Bodies ==
    { [code |-> "a", options |-> <<>>],
      [code |-> "a", options |-> << <<"fontFamily", Num("5")>> >>],
      [code |-> "", options |-> <<>>] }

\* the request bodies at the length limit of the code: 10000 and 10001
\* characters
LongBodies ==
    { [code |-> Repeat("a", MaxCodeChars), options |-> <<>>],
      [code |-> Repeat("a", MaxCodeChars + 1), options |-> <<>>] }

Renderable(b) == ValidationErrors(b) = <<>> /\ ~TemplateThrows(b.options)

Keys ==
    { cacheKey(b.code, b.options) :
        b \in {x \in Bodies \cup LongBodies : ValidationErrors(x) = <<>>} }

\* the keys a render can have been stored under
RenderKeys == { cacheKey(b.code, b.options) : b \in {x \in Bodies : Renderable(x)} }

-----------------------------------------------------------------------------
(* The store, the responses *)

NoEntry == [kind |-> "none", width |-> 0, height |-> 0]
\* JSON.stringify(result) of server.js:614-623 as stored by setToCache
ResultEntry(w, h) == [kind |-> "result", width |-> w, height |-> h]

\* the bounding boxes page.evaluate may measure (server.js:581-591)
Boxes == { [width |-> 900, height |-> 400], [width |-> 2000, height |-> 1200] }

NoResp == [status |-> 0, success |-> FALSE, cached |-> FALSE, fallback |-> FALSE,
           width |-> 0, height |-> 0]

Resp400 == [NoResp EXCEPT !.status = 400]
Resp503 == [NoResp EXCEPT !.status = 503, !.fallback = TRUE]
Resp500 == [NoResp EXCEPT !.status = 500]
\* res.json({...cached, cached: true, timestamp})
RespCached(e) == [status |-> 200, success |-> TRUE, cached |-> TRUE, fallback |-> FALSE,
                  width |-> e.width, height |-> e.height]
\* res.json(result)
RespResult(d) == [status |-> 200, success |-> TRUE, cached |-> FALSE, fallback |-> FALSE,
                  width |-> d.width, height |-> d.height]

\* the handler invocations and the shutdown() calls of a run
ReqIds == {1, 2}
ShutIds == {1, 2}

IdleReq == [pc |-> "idle", body |-> [code |-> "", options |-> <<>>], key |-> "",
            page |-> "none", dims |-> [width |-> 0, height |-> 0],
            clip |-> [width |-> 0, height |-> 0], engine |-> "",
            readErr |-> FALSE, writeErr |-> FALSE,
            resp |-> NoResp, log |-> <<>>]

-----------------------------------------------------------------------------
(* The pure parts as state machines: the inputs are drawn in the initial   *)
(* state and an action applies the function.                               *)

NoDoc == [code |-> ""]
NoInput == [code |-> "", options |-> <<>>]

KeyIdle == kreq = <<>> /\ kkeys = <<>>

TemplateIdle ==
    tin = NoInput /\ tstage = "idle" /\ tdoc = NoDoc /\ ttext = "" /\ thtml = ""

ErrorsIdle == nodeEnv = "undefined" /\ eresps = <<>>

PureIdle == KeyIdle /\ TemplateIdle /\ ErrorsIdle

\* no response of the health or stats route yet; conn records the state of
\* the store connection at the moment a response was sent
NoProbe == [route |-> "none", browser |-> "", cache |-> "", conn |-> ""]

\* a server that serves nothing: no puppeteer, no REDIS_URL
ServerIdle ==
    /\ puppeteer = FALSE
    /\ redisClient = "null" /\ redisConn = "none"
    /\ store = [k \in Keys |-> NoEntry]
    /\ browser = "null" /\ browserProc = "none" /\ isBrowserReady = FALSE
    /\ closeCalls = 0
    /\ shut = [s \in ShutIds |-> "idle"]
    /\ exited = FALSE
    /\ req = [r \in ReqIds |-> IdleReq]
    /\ fb = [code |-> "", status |-> 0, codePreview |-> "", length |-> 0]
    /\ probe = NoProbe

KeyCodes == {"a", "b", "ab", "a b"}

KeyOptions ==
    { <<>>,
      << <<"theme", Str("light")>> >>,
      << <<"theme", Str("dark")>> >>,
      << <<"theme", Str("light")>>, <<"fontSize", Str("14px")>> >>,
      << <<"fontSize", Str("14px")>>, <<"theme", Str("light")>> >>,
      << <<"fontSize", Str("16px")>>, <<"theme", Str("light")>> >>,
      << <<"showLineNumbers", Bool("false")>> >>,
      << <<"showLineNumbers", Str("false")>> >> }

KeyBodies == { [code |-> c, options |-> o] : c \in KeyCodes, o \in KeyOptions }

InitKey ==
    /\ ServerIdle
    /\ kreq \in KeyBodies \X KeyBodies
    /\ kkeys = <<>>
    /\ TemplateIdle /\ ErrorsIdle

\* const cacheKey = ... of two handler invocations (server.js:540)
ComputeKeys ==
    /\ kkeys = <<>>
    /\ kkeys' = << cacheKey(kreq[1].code, kreq[1].options),
                   cacheKey(kreq[2].code, kreq[2].options) >>
    /\ UNCHANGED <<svars, kreq, tvars, evars, hvars>>

SpecKey == InitKey /\ [][ComputeKeys]_vars

\* the code strings of the documents: every string over CodeAlphabet up to
\* MaxCodeLen characters, and the samples
MaxCodeLen == 3

CodeAlphabet == {"<", "b", ">", "&", "'", "\n", " "}

RECURSIVE StringsUpTo(_)
StringsUpTo(n) ==
    IF n = 0 THEN {""}
    ELSE LET P == StringsUpTo(n - 1) IN P \cup {p \o c : p \in P, c \in CodeAlphabet}

SampleCodes ==
    { "console.log('hi')", "<img/src=x/onerror=alert(1)>", "a\tb", "x = 1;\nreturn x",
      "\"a\" // b" }

TemplateOptions ==
    { <<>>,
      << <<"theme", Str("dark")>> >>,
      << <<"theme", Str("light")>> >>,
      << <<"theme", Str("solarized")>> >>,
      << <<"showLineNumbers", Bool("false")>> >>,
      << <<"theme", Str("light")>>, <<"backgroundColor", Str("#fafafa")>>,
         <<"language", Str("javascript")>> >> }

InitTemplate ==
    /\ ServerIdle /\ KeyIdle /\ ErrorsIdle
    /\ tin \in { [code |-> c, options |-> o] :
                    c \in (StringsUpTo(MaxCodeLen) \ {""}) \cup SampleCodes,
                    o \in TemplateOptions }
    /\ tstage = "input" /\ tdoc = NoDoc /\ ttext = "" /\ thtml = ""

\* const html = this.generateHTMLTemplate(code, options) (server.js:568)
Build ==
    /\ tstage = "input"
    /\ tdoc' = generateHTMLTemplate(tin.code, tin.options)
    /\ tstage' = "built"
    /\ UNCHANGED <<svars, kvars, tin, ttext, thtml, evars, hvars>>

\* page.setContent(html): the document is parsed, and the script reads
\* codeElement.textContent (server.js:569, 383)
Load ==
    /\ tstage = "built"
    /\ ttext' = textContent(ParseHTML(tdoc.code, 1))
    /\ tstage' = "loaded"
    /\ UNCHANGED <<svars, kvars, tin, tdoc, thtml, evars, hvars>>

\* the script runs to codeElement.innerHTML = code (server.js:384-439)
Highlight ==
    /\ tstage = "loaded"
    /\ thtml' = highlightSyntax(ttext, tdoc.scriptLanguage, tdoc.scriptShowLineNumbers)
    /\ tstage' = "highlighted"
    /\ UNCHANGED <<svars, kvars, tin, tdoc, ttext, evars, hvars>>

NextTemplate == Build \/ Load \/ Highlight

SpecTemplate == InitTemplate /\ [][NextTemplate]_vars

\* the options a request can carry for the values the template inserts into
\* its CSS and its script: well-formed values and values that end the
\* declaration or the string literal they are inserted into
OptionProps ==
    { <<"fontSize", Str("14px")>>, <<"fontSize", Str("2em")>>, <<"fontSize", Str("14")>>,
      <<"fontSize", Str("14px;} *{color:red")>>,
      <<"padding", Str("40px")>>, <<"padding", Str("1rem")>>,
      <<"padding", Str("0;} *{color:red")>>,
      <<"lineHeight", Str("1.6")>>, <<"lineHeight", Str("1;} body{display:none")>>,
      <<"backgroundColor", Str("#fafafa")>>,
      <<"backgroundColor", Str("red;}</style><script>alert(1)</script>")>>,
      <<"fontFamily", Str("Fira Code")>>, <<"fontFamily", Str("x;} *{color:red")>>,
      <<"tabSize", Num("4")>>, <<"tabSize", Str("2;} *{color:red")>>,
      <<"language", Str("javascript")>>, <<"language", Str("';alert(1);//")>> }

\* the options the template inserts into CSS or script (server.js:161-172)
InsertedOptions ==
    <<"fontSize", "padding", "lineHeight", "backgroundColor", "fontFamily", "tabSize",
      "language">>

\* the option objects with at most two of these properties
OptionObjects ==
    {<<>>}
    \cup { <<p>> : p \in OptionProps }
    \cup { pq \in OptionProps \X OptionProps : pq[1][1] # pq[2][1] }

OptionRequests == { [code |-> "a", options |-> o] : o \in OptionObjects }

InitOptions ==
    /\ ServerIdle /\ KeyIdle /\ ErrorsIdle
    /\ tin \in OptionRequests
    /\ tstage = "received" /\ tdoc = NoDoc /\ ttext = "" /\ thtml = ""

\* validationResult(req): a request with errors is answered 400 and goes no
\* further (server.js:529-535); the others go on to the builder
CheckRequest ==
    /\ tstage = "received"
    /\ tstage' = IF ValidationErrors(tin) # <<>> THEN "rejected" ELSE "input"
    /\ UNCHANGED <<svars, kvars, tin, tdoc, ttext, thtml, evars, hvars>>

NextOptions == CheckRequest \/ Build

SpecOptions == InitOptions /\ [][NextOptions]_vars

\* theme names given to generateHTMLTemplate: the three palettes, names that
\* are no property of themes, and names themes inherits from Object.prototype
ThemeNames ==
    Themes \cup {"neon", "Dark", "monokai", "", "constructor", "toString", "__proto__"}

\* the other options of the calls: each absent or present
ThemeExtras ==
    { <<>>, << <<"showWindowControls", Bool("false")>> >>,
      << <<"showLineNumbers", Bool("false")>> >>,
      << <<"backgroundColor", Str("#fafafa")>> >>,
      << <<"language", Str("python")>> >>,
      << <<"showLineNumbers", Bool("false")>>, <<"fontFamily", Str("Fira Code")>> >> }

\* calls generateHTMLTemplate(code, {theme, ...})
InitTheme ==
    /\ ServerIdle /\ KeyIdle /\ ErrorsIdle
    /\ tin \in { [code |-> "a", options |-> << <<"theme", Str(t)>> >> \o e] :
                    t \in ThemeNames, e \in ThemeExtras }
    /\ tstage = "input" /\ tdoc = NoDoc /\ ttext = "" /\ thtml = ""

SpecTheme == InitTheme /\ [][Build]_vars

-----------------------------------------------------------------------------
(* The error responses of the server: the body each producer sends, under  *)
(* each value of NODE_ENV.  success is "absent" for a body with no such     *)
(* property; message is "" for undefined.                                  *)

NodeEnvs == {"undefined", "development", "production", "test"}

\* error.message of errors thrown inside the server: by the page operations
\* of the handler, by the body parser
InternalMessages ==
    {"Navigation timeout of 10000 ms exceeded", "Could not find code container",
     "Unexpected token } in JSON at position 5"}

\* the errors that reach the global error handler (err.status, err.message)
HandlerErrors ==
    { [status |-> 400, message |-> "Unexpected token } in JSON at position 5"],
      [status |-> 0, message |-> "Navigation timeout of 10000 ms exceeded"] }

ErrorBody(status, success, error, errors, message) ==
    [status |-> status, success |-> success, error |-> error, errors |-> errors,
     message |-> message]

\* res.status(400).json({ success: false, errors: errors.array() }) (server.js:531-534)
Validation400 == ErrorBody(400, "false", "", <<"Code is required">>, "")

\* server.js:554-558
Unavailable503 ==
    ErrorBody(503, "false", "Image generation service is temporarily unavailable", <<>>, "")

\* the outer catch of the handler (server.js:638-643)
Generation500(env, message) ==
    ErrorBody(500, "false", "Failed to generate image", <<>>,
              IF env = "development" THEN message ELSE "")

\* GET /api/download (server.js:652-673, 686-690)
Download400 ==
    { ErrorBody(400, "false", e, <<>>, "") :
        e \in {"Invalid image URL", "Invalid base64 data", "Invalid image data"} }

Download500 == ErrorBody(500, "false", "Download failed", <<>>, "")

\* POST /api/generate/fallback without code (server.js:699-704)
Fallback400 == ErrorBody(400, "false", "Code is required", <<>>, "")

\* the 404 handler (server.js:724-729)
NotFound404 == ErrorBody(404, "false", "Endpoint not found", <<>>, "")

\* the rejection of apiLimiter: its message object is the body (server.js:131-139)
RateLimit429 ==
    ErrorBody(429, "absent", "Too many requests from this IP, please try again later.",
              <<>>, "")

\* the global error handler (server.js:732-742)
GlobalError(env, err) ==
    ErrorBody(IF err.status # 0 THEN err.status ELSE 500, "false",
              IF env = "production" THEN "Internal server error" ELSE err.message,
              <<>>, "")

\* the error responses counted in one run
MaxResponses == 2

InitErrors ==
    /\ ServerIdle /\ KeyIdle /\ TemplateIdle
    /\ nodeEnv \in NodeEnvs
    /\ eresps = <<>>

CanSend == Len(eresps) < MaxResponses

\* res.status(400).json of the validation (server.js:531-534)
GenerateInvalid ==
    /\ CanSend
    /\ eresps' = Append(eresps, Validation400)
    /\ UNCHANGED <<svars, kvars, tvars, nodeEnv, hvars>>

\* res.status(503).json (server.js:554-558)
GenerateUnavailable ==
    /\ CanSend
    /\ eresps' = Append(eresps, Unavailable503)
    /\ UNCHANGED <<svars, kvars, tvars, nodeEnv, hvars>>

\* the outer catch of the handler (server.js:635-644)
GenerateFailed ==
    /\ CanSend
    /\ \E m \in InternalMessages : eresps' = Append(eresps, Generation500(nodeEnv, m))
    /\ UNCHANGED <<svars, kvars, tvars, nodeEnv, hvars>>

\* GET /api/download, a rejected url (server.js:652-673)
DownloadInvalid ==
    /\ CanSend
    /\ \E b \in Download400 : eresps' = Append(eresps, b)
    /\ UNCHANGED <<svars, kvars, tvars, nodeEnv, hvars>>

\* GET /api/download, the catch (server.js:686-690)
DownloadFailed ==
    /\ CanSend
    /\ eresps' = Append(eresps, Download500)
    /\ UNCHANGED <<svars, kvars, tvars, nodeEnv, hvars>>

\* POST /api/generate/fallback without code (server.js:699-704)
FallbackInvalid ==
    /\ CanSend
    /\ eresps' = Append(eresps, Fallback400)
    /\ UNCHANGED <<svars, kvars, tvars, nodeEnv, hvars>>

\* the 404 handler (server.js:724-729)
NotFound ==
    /\ CanSend
    /\ eresps' = Append(eresps, NotFound404)
    /\ UNCHANGED <<svars, kvars, tvars, nodeEnv, hvars>>

\* apiLimiter rejects (server.js:131-142)
RateLimited ==
    /\ CanSend
    /\ eresps' = Append(eresps, RateLimit429)
    /\ UNCHANGED <<svars, kvars, tvars, nodeEnv, hvars>>

\* the global error handler (server.js:732-742)
ErrorHandler ==
    /\ CanSend
    /\ \E err \in HandlerErrors : eresps' = Append(eresps, GlobalError(nodeEnv, err))
    /\ UNCHANGED <<svars, kvars, tvars, nodeEnv, hvars>>

NextErrors ==
    \/ GenerateInvalid
    \/ GenerateUnavailable
    \/ GenerateFailed
    \/ DownloadInvalid
    \/ DownloadFailed
    \/ FallbackInvalid
    \/ NotFound
    \/ RateLimited
    \/ ErrorHandler

SpecErrors == InitErrors /\ [][NextErrors]_vars

-----------------------------------------------------------------------------
(* Construction (server.js:22-34): initRedis and initBrowser have run up    *)
(* to their first await.                                                    *)

Init ==
    /\ puppeteer \in BOOLEAN
    /\ \E redisUrl \in BOOLEAN :
          /\ redisClient = IF redisUrl THEN "client" ELSE "null"
          /\ redisConn = IF redisUrl THEN "connecting" ELSE "none"
    \* the store is external: it may hold results of an earlier run (TTL 3600 s)
    /\ store \in { f \in [Keys -> {NoEntry} \cup {ResultEntry(b.width, b.height) : b \in Boxes}] :
                     /\ \A k \in Keys \ RenderKeys : f[k] = NoEntry
                     /\ redisClient = "null" => \A k \in Keys : f[k] = NoEntry }
    /\ browser = "null"
    /\ browserProc = IF puppeteer THEN "launching" ELSE "none"
    /\ isBrowserReady = FALSE
    /\ closeCalls = 0
    /\ shut = [s \in ShutIds |-> "idle"]
    /\ exited = FALSE
    /\ req = [r \in ReqIds |-> IdleReq]
    /\ fb = [code |-> "", status |-> 0, codePreview |-> "", length |-> 0]
    /\ probe = NoProbe
    /\ PureIdle

-----------------------------------------------------------------------------
(* initRedis (server.js:36-54) and initBrowser (server.js:56-104) after     *)
(* their await, and the environment of the two external services.          *)

\* await this.redisClient.connect() resolves
RedisConnected ==
    /\ ~exited /\ redisConn = "connecting"
    /\ redisConn' = "open"
    /\ UNCHANGED <<puppeteer, redisClient, store, browser, browserProc,
                   isBrowserReady, closeCalls, shut, exited, req, fb>>
    /\ UNCHANGED <<kvars, tvars, evars, hvars>>

\* connect() rejects: the catch only logs, this.redisClient keeps the client
RedisConnectFailed ==
    /\ ~exited /\ redisConn = "connecting"
    /\ redisConn' = "failed"
    /\ UNCHANGED <<puppeteer, redisClient, store, browser, browserProc,
                   isBrowserReady, closeCalls, shut, exited, req, fb>>
    /\ UNCHANGED <<kvars, tvars, evars, hvars>>

\* an entry of the store reaches its TTL (EX: ttl, server.js:475-477)
StoreExpire ==
    /\ ~exited
    /\ \E k \in Keys :
          /\ store[k] # NoEntry
          /\ store' = [store EXCEPT ![k] = NoEntry]
    /\ UNCHANGED <<puppeteer, redisClient, redisConn, browser, browserProc,
                   isBrowserReady, closeCalls, shut, exited, req, fb>>
    /\ UNCHANGED <<kvars, tvars, evars, hvars>>

\* this.browser = await puppeteer.launch(...); this.isBrowserReady = true
BrowserLaunched ==
    /\ ~exited /\ browserProc = "launching"
    /\ browserProc' = "running"
    /\ browser' = "browser"
    /\ isBrowserReady' = TRUE
    /\ UNCHANGED <<puppeteer, redisClient, redisConn, store, closeCalls, shut,
                   exited, req, fb>>
    /\ UNCHANGED <<kvars, tvars, evars, hvars>>

\* launch rejects: this.isBrowserReady = false, this.browser stays null
BrowserLaunchFailed ==
    /\ ~exited /\ browserProc = "launching"
    /\ browserProc' = "failed"
    /\ isBrowserReady' = FALSE
    /\ UNCHANGED <<puppeteer, redisClient, redisConn, store, browser, closeCalls,
                   shut, exited, req, fb>>
    /\ UNCHANGED <<kvars, tvars, evars, hvars>>

\* the engine process dies; no handler is registered for it in server.js,
\* so this.browser and this.isBrowserReady keep their values
BrowserCrash ==
    /\ ~exited /\ browserProc = "running"
    /\ browserProc' = "crashed"
    /\ UNCHANGED <<puppeteer, redisClient, redisConn, store, browser,
                   isBrowserReady, closeCalls, shut, exited, req, fb>>
    /\ UNCHANGED <<kvars, tvars, evars, hvars>>

-----------------------------------------------------------------------------
(* shutdown (server.js:745-757), called by SIGTERM, SIGINT and the server's *)
(* 'error' event (server.js:775-782); each call is one ShutIds entry.       *)

\* the part of shutdown after the browser: quit the store client or exit
AfterBrowser(s) ==
    IF redisClient # "null"
    THEN /\ shut' = [shut EXCEPT ![s] = "quitting"]
         /\ UNCHANGED exited
    ELSE /\ shut' = [shut EXCEPT ![s] = "done"]
         /\ exited' = TRUE

ShutdownStart(s) ==
    /\ ~exited /\ shut[s] = "idle"
    /\ IF browser # "null"
       THEN /\ closeCalls' = closeCalls + 1
            /\ shut' = [shut EXCEPT ![s] = "closing"]
            /\ UNCHANGED exited
       ELSE /\ AfterBrowser(s)
            /\ UNCHANGED closeCalls
    /\ UNCHANGED <<puppeteer, redisClient, redisConn, store, browser, browserProc,
                   isBrowserReady, req, fb>>
    /\ UNCHANGED <<kvars, tvars, evars, hvars>>

\* await this.browser.close().catch(console.error) settles
ShutdownBrowserClosed(s) ==
    /\ ~exited /\ shut[s] = "closing"
    /\ browserProc' = "closed"
    /\ AfterBrowser(s)
    /\ UNCHANGED <<puppeteer, redisClient, redisConn, store, browser,
                   isBrowserReady, closeCalls, req, fb>>
    /\ UNCHANGED <<kvars, tvars, evars, hvars>>

\* await this.redisClient.quit().catch(console.error) settles; process.exit(0)
ShutdownRedisQuit(s) ==
    /\ ~exited /\ shut[s] = "quitting"
    /\ redisConn' = "closed"
    /\ shut' = [shut EXCEPT ![s] = "done"]
    /\ exited' = TRUE
    /\ UNCHANGED <<puppeteer, redisClient, store, browser, browserProc,
                   isBrowserReady, closeCalls, req, fb>>
    /\ UNCHANGED <<kvars, tvars, evars, hvars>>

-----------------------------------------------------------------------------
(* POST /api/generate (server.js:526-645).  Every await of the handler is   *)
(* a step; req[r].log lists what the invocation has done so far.           *)

Respond(q, resp) == [q EXCEPT !.pc = "done", !.resp = resp, !.log = @ \o <<"respond">>]

\* validationResult, cacheKey and the call of getFromCache (server.js:529-543)
Validate(q, b) ==
    IF ValidationErrors(b) # <<>>
    THEN Respond([q EXCEPT !.body = b], Resp400)
    ELSE [q EXCEPT !.pc = "getFromCache", !.body = b, !.key = cacheKey(b.code, b.options)]

Receive(r) ==
    /\ ~exited /\ req[r].pc = "idle"
    /\ \E b \in Bodies : req' = [req EXCEPT ![r] = Validate(req[r], b)]
    /\ UNCHANGED <<puppeteer, redisClient, redisConn, store, browser, browserProc,
                   isBrowserReady, closeCalls, shut, exited, fb>>
    /\ UNCHANGED <<kvars, tvars, evars, hvars>>

\* a request with a code at the length limit arrives
ReceiveLong(r) ==
    /\ ~exited /\ req[r].pc = "idle"
    /\ \E b \in LongBodies : req' = [req EXCEPT ![r] = Validate(req[r], b)]
    /\ UNCHANGED <<puppeteer, redisClient, redisConn, store, browser, browserProc,
                   isBrowserReady, closeCalls, shut, exited, fb>>
    /\ UNCHANGED <<kvars, tvars, evars, hvars>>

\* the value getFromCache may return (server.js:459-469): the parsed entry
\* of an open connection, or null (no client, no entry, or a read error)
CacheReads(k) ==
    {NoEntry} \cup (IF redisClient # "null" /\ redisConn = "open" THEN {store[k]} ELSE {})

\* whether the try of getFromCache ended in its catch (server.js:466-468):
\* the client exists and the value returned is not what the store holds (a
\* failed read of an absent entry is no different from a miss)
ReadFailed(k, cached) ==
    redisClient # "null" /\ (redisConn # "open" \/ cached # store[k])

\* a setToCache whose client check is missing
CacheWritesNoClientCheck == {FALSE, TRUE}

\* whether the store takes the value of setToCache (server.js:471-483): not
\* without a client, and not when redisClient.set throws
CacheWrites ==
    {FALSE} \cup (IF redisClient # "null" /\ redisConn = "open" THEN {TRUE} ELSE {})

\* whether the try of setToCache ended in its catch (server.js:480-482)
WriteFailed(wrote) == redisClient # "null" /\ ~wrote

\* a command of a client that is still connecting waits for the connection
CacheSettles == redisClient = "null" \/ redisConn # "connecting"

\* AfterCacheRead without the return of the cache hit
AfterCacheReadNoHit(q, cached) ==
    IF ~isBrowserReady \/ browser = "null"
    THEN [q EXCEPT !.pc = "done", !.resp = Resp503, !.log = @ \o <<"respond">>]
    ELSE [q EXCEPT !.pc = "newPage"]

\* AfterCacheRead without the availability check
AfterCacheReadNoCheck(q, cached) ==
    IF cached # NoEntry
    THEN [q EXCEPT !.pc = "done", !.resp = RespCached(cached), !.log = @ \o <<"respond">>]
    ELSE [q EXCEPT !.pc = "newPage"]

\* AfterCacheRead with a hit that stores the entry again before answering
AfterCacheReadRewrite(q, cached) ==
    IF cached # NoEntry
    THEN [q EXCEPT !.pc = "setToCache",
                   !.dims = [width |-> cached.width, height |-> cached.height]]
    ELSE IF ~isBrowserReady \/ browser = "null"
    THEN [q EXCEPT !.pc = "done", !.resp = Resp503, !.log = @ \o <<"respond">>]
    ELSE [q EXCEPT !.pc = "newPage"]

\* the cache hit, the availability check and the call of browser.newPage
\* (server.js:544-565)
AfterCacheRead(q, cached) ==
    IF cached # NoEntry
    THEN Respond(q, RespCached(cached))
    ELSE IF ~isBrowserReady \/ browser = "null"
    THEN Respond(q, Resp503)
    ELSE [q EXCEPT !.pc = "newPage"]

\* await this.getFromCache(cacheKey) settles.  The log records what was
\* read, and engine the state of the engine process at that moment.
CacheRead(r) ==
    /\ ~exited /\ req[r].pc = "getFromCache"
    /\ CacheSettles
    /\ \E cached \in CacheReads(req[r].key) :
          req' = [req EXCEPT ![r] =
                    AfterCacheRead(
                        [@ EXCEPT !.engine = browserProc,
                                  !.readErr = ReadFailed(req[r].key, cached),
                                  !.log = @ \o <<IF cached # NoEntry THEN "cacheHit"
                                                 ELSE "cacheMiss">>],
                        cached)]
    /\ UNCHANGED <<puppeteer, redisClient, redisConn, store, browser, browserProc,
                   isBrowserReady, closeCalls, shut, exited, fb>>
    /\ UNCHANGED <<kvars, tvars, evars, hvars>>

\* page = await this.browser.newPage() resolves; generateHTMLTemplate;
\* the call of page.setContent (server.js:565-572)
AfterNewPage(q) ==
    IF TemplateThrows(q.body.options)
    THEN [q EXCEPT !.pc = "catch", !.page = "open", !.log = @ \o <<"pageOpen">>]
    ELSE [q EXCEPT !.pc = "setContent", !.page = "open",
                   !.log = @ \o <<"pageOpen", "template">>]

\* a newPage that waits while another request has its page open
NewPageOkSerialized(r) ==
    /\ ~exited /\ req[r].pc = "newPage"
    /\ browserProc = "running"
    /\ \A q \in DOMAIN req : q # r => req[q].page # "open"
    /\ req' = [req EXCEPT ![r] = AfterNewPage(@)]
    /\ UNCHANGED <<puppeteer, redisClient, redisConn, store, browser, browserProc,
                   isBrowserReady, closeCalls, shut, exited, fb>>
    /\ UNCHANGED <<kvars, tvars, evars, hvars>>

NewPageOk(r) ==
    /\ ~exited /\ req[r].pc = "newPage"
    /\ browserProc = "running"
    /\ req' = [req EXCEPT ![r] = AfterNewPage(@)]
    /\ UNCHANGED <<puppeteer, redisClient, redisConn, store, browser, browserProc,
                   isBrowserReady, closeCalls, shut, exited, fb>>
    /\ UNCHANGED <<kvars, tvars, evars, hvars>>

\* newPage rejects: page is undefined in the inner catch, the outer catch
\* answers 500 (server.js:630-644)
NewPageFails(r) ==
    /\ ~exited /\ req[r].pc = "newPage"
    /\ req' = [req EXCEPT ![r] = Respond(@, Resp500)]
    /\ UNCHANGED <<puppeteer, redisClient, redisConn, store, browser, browserProc,
                   isBrowserReady, closeCalls, shut, exited, fb>>
    /\ UNCHANGED <<kvars, tvars, evars, hvars>>

\* an awaited page operation resolves: setContent, waitForFunction, screenshot
PageStepOk(r) ==
    /\ ~exited /\ req[r].pc \in {"setContent", "waitForFunction", "screenshot"}
    /\ browserProc = "running"
    /\ req' = [req EXCEPT ![r] =
                 CASE @.pc = "setContent" ->
                        [@ EXCEPT !.pc = "waitForFunction", !.log = @ \o <<"load">>]
                   [] @.pc = "waitForFunction" ->
                        [@ EXCEPT !.pc = "evaluate", !.log = @ \o <<"ready">>]
                   [] @.pc = "screenshot" ->
                        [@ EXCEPT !.pc = "pageClose", !.log = @ \o <<"capture">>]]
    /\ UNCHANGED <<puppeteer, redisClient, redisConn, store, browser, browserProc,
                   isBrowserReady, closeCalls, shut, exited, fb>>
    /\ UNCHANGED <<kvars, tvars, evars, hvars>>

MaxClipWidth == 1920
MaxClipHeight == 1080

\* the clip of page.screenshot (server.js:601-606)
clip(dimensions) ==
    [width |-> Min(dimensions.width, MaxClipWidth),
     height |-> Min(dimensions.height, MaxClipHeight)]

\* page.evaluate resolves with the bounding box (server.js:581-591); the
\* call of page.screenshot with its clip (server.js:598-609)
EvaluateOk(r) ==
    /\ ~exited /\ req[r].pc = "evaluate"
    /\ browserProc = "running"
    /\ \E d \in Boxes :
          req' = [req EXCEPT ![r] =
                    [@ EXCEPT !.pc = "screenshot", !.dims = d, !.clip = clip(d),
                              !.log = @ \o <<"measure">>]]
    /\ UNCHANGED <<puppeteer, redisClient, redisConn, store, browser, browserProc,
                   isBrowserReady, closeCalls, shut, exited, fb>>
    /\ UNCHANGED <<kvars, tvars, evars, hvars>>

\* a handler that goes on to the screenshot without the container
MissingContainerIgnored(q) ==
    [q EXCEPT !.pc = "screenshot", !.log = @ \o <<"noContainer">>]

\* if (!dimensions) throw new Error('Could not find code container')
\* (server.js:593-595): into the inner catch
MissingContainer(q) ==
    [q EXCEPT !.pc = "catch", !.log = @ \o <<"noContainer", "throw">>]

\* page.evaluate resolves with null: document.querySelector finds no
\* .carbon-container (server.js:581-583)
EvaluateNull(r) ==
    /\ ~exited /\ req[r].pc = "evaluate"
    /\ browserProc = "running"
    /\ req' = [req EXCEPT ![r] = MissingContainer(req[r])]
    /\ UNCHANGED <<puppeteer, redisClient, redisConn, store, browser, browserProc,
                   isBrowserReady, closeCalls, shut, exited, fb>>
    /\ UNCHANGED <<kvars, tvars, evars, hvars>>

\* an awaited page operation rejects into the inner catch: the setContent
\* timeout, the waitForFunction timeout, a failed evaluate, a failed
\* screenshot, a rejected page.close
PageStepFails(r) ==
    /\ ~exited
    /\ req[r].pc \in {"setContent", "waitForFunction", "evaluate", "screenshot", "pageClose"}
    /\ req' = [req EXCEPT ![r] = [@ EXCEPT !.pc = "catch", !.log = @ \o <<"throw">>]]
    /\ UNCHANGED <<puppeteer, redisClient, redisConn, store, browser, browserProc,
                   isBrowserReady, closeCalls, shut, exited, fb>>
    /\ UNCHANGED <<kvars, tvars, evars, hvars>>

\* await page.close() of the success path resolves; the result is built and
\* setToCache called (server.js:611-626)
PageCloseOk(r) ==
    /\ ~exited /\ req[r].pc = "pageClose"
    /\ req' = [req EXCEPT ![r] =
                 [@ EXCEPT !.pc = "setToCache", !.page = "closed",
                           !.log = @ \o <<"pageClose">>]]
    /\ UNCHANGED <<puppeteer, redisClient, redisConn, store, browser, browserProc,
                   isBrowserReady, closeCalls, shut, exited, fb>>
    /\ UNCHANGED <<kvars, tvars, evars, hvars>>

\* an inner catch that rethrows without closing the page
CatchPageLeak(q) == q.page

\* what the inner catch does with the page (server.js:631)
CatchPage(q) == IF q.page = "open" THEN "closed" ELSE q.page

\* if (page) await page.close().catch(() => {}); throw pageError; the outer
\* catch answers 500 (server.js:630-644)
CatchClose(r) ==
    /\ ~exited /\ req[r].pc = "catch"
    /\ req' = [req EXCEPT ![r] =
                 Respond([@ EXCEPT !.page = CatchPage(req[r]),
                                   !.log = @ \o <<"pageClose">>], Resp500)]
    /\ UNCHANGED <<puppeteer, redisClient, redisConn, store, browser, browserProc,
                   isBrowserReady, closeCalls, shut, exited, fb>>
    /\ UNCHANGED <<kvars, tvars, evars, hvars>>

\* a setToCache without its catch: the error of redisClient.set reaches the
\* outer catch of the handler
AfterSetToCacheNoCatch(q, wrote) ==
    IF WriteFailed(wrote)
    THEN Respond([q EXCEPT !.writeErr = TRUE], Resp500)
    ELSE Respond([q EXCEPT !.log = @ \o (IF wrote THEN <<"cacheWrite">> ELSE <<>>)],
                 RespResult(q.dims))

\* the handler after await this.setToCache(cacheKey, result): whatever the
\* call returned, res.json(result) (server.js:626-628)
AfterSetToCache(q, wrote) ==
    Respond([q EXCEPT !.writeErr = WriteFailed(wrote),
                      !.log = @ \o (IF wrote THEN <<"cacheWrite">> ELSE <<>>)],
            RespResult(q.dims))

\* setToCache (server.js:471-483) settles, then res.json(result)
\* (server.js:626-628); wrote is whether the store took the value
SetToCache(r) ==
    /\ ~exited /\ req[r].pc = "setToCache"
    /\ CacheSettles
    /\ \E wrote \in CacheWrites :
          /\ store' = IF wrote
                      THEN [store EXCEPT ![req[r].key] =
                               ResultEntry(req[r].dims.width, req[r].dims.height)]
                      ELSE store
          /\ req' = [req EXCEPT ![r] = AfterSetToCache(req[r], wrote)]
    /\ UNCHANGED <<puppeteer, redisClient, redisConn, browser, browserProc,
                   isBrowserReady, closeCalls, shut, exited, fb>>
    /\ UNCHANGED <<kvars, tvars, evars, hvars>>

-----------------------------------------------------------------------------
(* POST /api/generate/fallback (server.js:696-714) *)

PreviewChars == 200

\* the preview with the ellipsis added from 200 characters on
codePreviewFrom200(code) ==
    Substring0(code, PreviewChars) \o (IF Len(code) >= PreviewChars THEN "..." ELSE "")

\* code.substring(0, 200) + (code.length > 200 ? '...' : '')
codePreview(code) ==
    Substring0(code, PreviewChars) \o (IF Len(code) > PreviewChars THEN "..." ELSE "")

FallbackCodes ==
    {"", "a", Repeat("a", 199), Repeat("a", 199) \o "b", Repeat("a", 199) \o "bc",
     Repeat("ab", 101)}

Fallback ==
    /\ ~exited
    /\ \E code \in FallbackCodes :
          fb' = IF code = ""
                THEN [code |-> code, status |-> 400, codePreview |-> "", length |-> 0]
                ELSE [code |-> code, status |-> 200, codePreview |-> codePreview(code),
                      length |-> Len(code)]
    /\ UNCHANGED <<puppeteer, redisClient, redisConn, store, browser, browserProc,
                   isBrowserReady, closeCalls, shut, exited, req>>
    /\ UNCHANGED <<kvars, tvars, evars, hvars>>

-----------------------------------------------------------------------------
(* GET /api/health and GET /api/stats (server.js:487-507) *)

\* res.json({status: 'OK', ..., browser: ..., cache: ...})
Health ==
    /\ ~exited
    /\ probe' = [route |-> "health",
                 browser |-> IF isBrowserReady THEN "ready" ELSE "not-ready",
                 cache |-> IF redisClient # "null" THEN "connected" ELSE "disabled",
                 conn |-> redisConn]
    /\ UNCHANGED <<svars, kvars, tvars, evars>>

\* res.json({uptime, memory, browser: this.isBrowserReady,
\* cache: !!this.redisClient, timestamp})
Stats ==
    /\ ~exited
    /\ probe' = [route |-> "stats",
                 browser |-> IF isBrowserReady THEN "true" ELSE "false",
                 cache |-> IF redisClient # "null" THEN "true" ELSE "false",
                 conn |-> redisConn]
    /\ UNCHANGED <<svars, kvars, tvars, evars>>

-----------------------------------------------------------------------------

Lifecycle ==
    \/ RedisConnected
    \/ RedisConnectFailed
    \/ StoreExpire
    \/ BrowserLaunched
    \/ BrowserLaunchFailed
    \/ BrowserCrash

Generate(r) ==
    \/ Receive(r)
    \/ CacheRead(r)
    \/ NewPageOk(r)
    \/ NewPageFails(r)
    \/ PageStepOk(r)
    \/ EvaluateOk(r)
    \/ EvaluateNull(r)
    \/ PageStepFails(r)
    \/ PageCloseOk(r)
    \/ CatchClose(r)
    \/ SetToCache(r)

Shutdown(s) ==
    \/ ShutdownStart(s)
    \/ ShutdownBrowserClosed(s)
    \/ ShutdownRedisQuit(s)

\* two concurrent requests, one shutdown signal
Next ==
    \/ Lifecycle
    \/ \E r \in ReqIds : Generate(r)
    \/ Shutdown(1)

Spec == Init /\ [][Next]_vars

\* the fallback endpoint beside the life of the engine and the store client
NextFallback ==
    \/ Lifecycle
    \/ \E s \in ShutIds : Shutdown(s)
    \/ Fallback

SpecFallback == Init /\ [][NextFallback]_vars

\* the two status routes beside the life of the engine and the store client
NextStatus ==
    \/ Lifecycle
    \/ Shutdown(1)
    \/ Health
    \/ Stats

SpecStatus == Init /\ [][NextStatus]_vars

\* the steps of the handler after the request has arrived
Handle(r) ==
    \/ CacheRead(r)
    \/ NewPageOk(r)
    \/ NewPageFails(r)
    \/ PageStepOk(r)
    \/ EvaluateOk(r)
    \/ EvaluateNull(r)
    \/ PageStepFails(r)
    \/ PageCloseOk(r)
    \/ CatchClose(r)
    \/ SetToCache(r)

\* one request with a code at the length limit
NextBoundary ==
    \/ Lifecycle
    \/ ReceiveLong(1)
    \/ Handle(1)

SpecBoundary == Init /\ [][NextBoundary]_vars

\* two concurrent requests and one that arrives after a response: the
\* server is configured with an engine and a store, which starts empty
LaterIds == ReqIds \cup {3}

InitLater ==
    /\ puppeteer = TRUE
    /\ redisClient = "client" /\ redisConn = "connecting"
    /\ store = [k \in Keys |-> NoEntry]
    /\ browser = "null"
    /\ browserProc = "launching"
    /\ isBrowserReady = FALSE
    /\ closeCalls = 0
    /\ shut = [s \in ShutIds |-> "idle"]
    /\ exited = FALSE
    /\ req = [r \in LaterIds |-> IdleReq]
    /\ fb = [code |-> "", status |-> 0, codePreview |-> "", length |-> 0]
    /\ probe = NoProbe
    /\ PureIdle

\* the third request arrives after one of the two has been answered
ReceiveLater ==
    /\ \E q \in ReqIds : req[q].pc = "done"
    /\ Receive(3)

NextLater ==
    \/ Lifecycle
    \/ \E r \in ReqIds : Generate(r)
    \/ ReceiveLater
    \/ Handle(3)

SpecLater == InitLater /\ [][NextLater]_vars

-----------------------------------------------------------------------------
(* Properties of the server *)

Done(r) == req[r].pc = "done"
Valid(r) == req[r].pc # "idle" /\ ValidationErrors(req[r].body) = <<>>
In(log, e) == \E i \in 1..Len(log) : log[i] = e
IndexOf(log, e) == IF In(log, e) THEN CHOOSE i \in 1..Len(log) : log[i] = e ELSE 0

\* the events of log that occur in order keep the relative order of order
Ordered(log, order) ==
    \A i, j \in 1..Len(log) :
        (i < j /\ In(order, log[i]) /\ In(order, log[j]))
            => IndexOf(order, log[i]) < IndexOf(order, log[j])

\* every event of chain in log has the events before it in chain in log too
Chained(log, chain) ==
    \A i \in 2..Len(chain) : In(log, chain[i]) => In(log, chain[i - 1])

\* C1: every request that opened a page has closed it by the time its
\* response is final, whichever way the handler was left (success, load
\* timeout, ready-state timeout, missing container, screenshot failure,
\* template build error): no completed request has its page still open.
C1_PageClosedOnEveryExit ==
    \A r \in ReqIds :
        Done(r) => /\ req[r].page # "open"
                   /\ In(req[r].log, "pageOpen") => In(req[r].log, "pageClose")

\* one request answered 200 after a render and one answered 500 after a
\* throw inside the page region, both with their page closed
C1_Witness ==
    \E r1, r2 \in ReqIds :
        /\ Done(r1) /\ req[r1].resp.status = 200 /\ ~req[r1].resp.cached
        /\ req[r1].page = "closed"
        /\ Done(r2) /\ req[r2].resp.status = 500 /\ In(req[r2].log, "throw")
        /\ req[r2].page = "closed"

Is503(resp) == resp.status = 503 /\ ~resp.success /\ resp.fallback

\* C2 as claimed: while the engine never became ready, every request that
\* passes validation is answered 503 with success:false and fallback:true,
\* whatever the store holds.
C2_NeverReadyAlways503 ==
    ~isBrowserReady =>
        \A r \in ReqIds : (Done(r) /\ Valid(r)) => Is503(req[r].resp)

\* C2 amended: while the engine never became ready, a request that passes
\* validation is answered 503 (success:false, fallback:true) exactly when
\* its cache read is a miss; on a hit it is answered 200 with the stored
\* result and cached:true.
C2_NeverReady503OnMiss ==
    ~isBrowserReady =>
        \A r \in ReqIds :
            (Done(r) /\ Valid(r)) =>
                IF In(req[r].log, "cacheMiss")
                THEN Is503(req[r].resp)
                ELSE req[r].resp.status = 200 /\ req[r].resp.cached

\* the engine failed to launch and a request was answered 503
C2_Witness ==
    /\ ~isBrowserReady /\ browserProc = "failed"
    /\ \E r \in ReqIds : Done(r) /\ Valid(r) /\ Is503(req[r].resp)

\* C3: a request whose cache read misses while the engine, once launched,
\* has crashed or been closed is answered 503 with fallback:true, not 500.
C3_CrashedEngineAnswers503 ==
    \A r \in ReqIds :
        (Done(r) /\ In(req[r].log, "cacheMiss") /\ req[r].engine \in {"crashed", "closed"})
            => Is503(req[r].resp)

\* C5 as claimed: the cache read comes first; a hit answers cached:true
\* with no page, no template and no cache write; a miss runs template
\* build, render (page open to page close), cache write, response in that
\* order.
ClaimedOrder ==
    <<"cacheMiss", "template", "pageOpen", "load", "ready", "measure", "capture",
      "pageClose", "cacheWrite", "respond">>

\* the order of the handler: the page is opened before the template is built
HandlerOrder ==
    <<"cacheMiss", "pageOpen", "template", "load", "ready", "measure", "capture",
      "pageClose", "cacheWrite", "respond">>

PipelineOrder(order) ==
    \A r \in ReqIds :
        LET log == req[r].log IN
        /\ (Valid(r) /\ Len(log) > 0) => log[1] \in {"cacheHit", "cacheMiss"}
        /\ In(log, "cacheHit") =>
              /\ log \in {<<"cacheHit">>, <<"cacheHit", "respond">>}
              /\ Done(r) => (req[r].resp.status = 200 /\ req[r].resp.cached)
        /\ Ordered(log, order)
        /\ Chained(log, SubSeq(order, 1, 7))
        /\ In(log, "cacheWrite") => (In(log, "capture") /\ In(log, "pageClose"))

C5_ClaimedOrder == PipelineOrder(ClaimedOrder)

\* C5 amended: the cache read comes first; a hit answers cached:true with
\* no page, no template and no cache write; a miss with the engine
\* available runs page open, template build, load, ready wait, measure,
\* capture, page close, cache write, response in that order.
C5_HandlerOrder == PipelineOrder(HandlerOrder)

\* one request served from the cache and one that went through the whole
\* pipeline and wrote the cache
C5_Witness ==
    \E r1, r2 \in ReqIds :
        /\ req[r1].log = <<"cacheHit", "respond">>
        /\ req[r2].log = HandlerOrder

-----------------------------------------------------------------------------
(* Properties of the fallback endpoint *)

\* C4: for every non-empty code string, in every state of the engine and
\* of the store client, the fallback endpoint answers 200 with the whole
\* code as preview when it has at most 200 characters, and with its first
\* 200 characters followed by "..." when it is longer.
C4_FallbackPreview ==
    /\ ~exited => ENABLED Fallback
    /\ fb.code # "" =>
          /\ fb.status = 200
          /\ fb.length = Len(fb.code)
          /\ fb.codePreview = IF Len(fb.code) <= 200 THEN fb.code
                              ELSE SubSeq(fb.code, 1, 200) \o "..."

\* a 200-character code answered whole and, in another state, a longer code
\* cut, with the engine failed
C4_Witness ==
    /\ fb.status = 200 /\ Len(fb.code) = 201 /\ Len(fb.codePreview) = 203
    /\ browserProc = "failed"

-----------------------------------------------------------------------------
(* The cache key (server.js:540) *)

\* the name/value pairs of an options object, whatever their order
Pairs(o) == { o[i] : i \in 1..Len(o) }

SameRequest(a, b) == a.code = b.code /\ Pairs(a.options) = Pairs(b.options)

\* C6: two requests get the same cache key if and only if they carry the same
\* code and the same option name/value pairs, in whatever order the pairs are
\* listed.
C6_KeyIffSameRequest ==
    kkeys # <<>> => ((kkeys[1] = kkeys[2]) <=> SameRequest(kreq[1], kreq[2]))

-----------------------------------------------------------------------------
(* The document and its script (server.js:160-457) *)

\* the elements the script itself writes into the code element
HighlighterElements == {"span", "div"}

\* C7: after the script has run, the code element holds no element other
\* than the script's own span and div elements: nothing of the submitted
\* code has become markup.
C7_NoUserMarkup ==
    tstage = "highlighted" => Elements(ParseHTML(thtml, 1)) \subseteq HighlighterElements

\* C8: the text content of the code element of the loaded document is the
\* submitted code, character for character, and the escaped text holds no
\* markup but the line breaks escapeHTML wrote itself.
C8_RoundTrip ==
    tstage \in {"loaded", "highlighted"} =>
        /\ ttext = tin.code
        /\ Elements(ParseHTML(tdoc.code, 1)) \subseteq {"br"}

\* C9: with no backgroundColor option, the background declared for the
\* document is the background of the palette of the chosen theme (of the
\* dark one when no theme is chosen).
C9_ThemeBackground ==
    (tstage \in {"built", "loaded", "highlighted"} /\ ~Has(tin.options, "backgroundColor")) =>
        tdoc.bodyBackground = themes[Get(tin.options, "theme", Str("dark")).v].background

\* the first quoted literal of s, "" when it has none
FirstLiteral(s) ==
    LET j == FirstPos({k \in 1..Len(s) : StringLen(s, k, {"\"", "'"}) > 0})
    IN  IF j = 0 THEN "" ELSE SubSeq(s, j, j + StringLen(s, j, {"\"", "'"}) - 1)

\* C10: with line numbers on, the numbered rows keep the token spans of the
\* rule pass: for code with a quoted literal the final content of the code
\* element holds a span of the string category around that literal.
C10_NumberedRowsKeepTokens ==
    (tstage = "highlighted" /\ tdoc.scriptShowLineNumbers = "true" /\ FirstLiteral(ttext) # "") =>
        Find(thtml, 1, "token string\">" \o FirstLiteral(ttext) \o "</span>") # 0

-----------------------------------------------------------------------------
(* Properties of the cache (server.js:459-483) *)

\* the request went through the whole render: capture and page close
Rendered(r) ==
    /\ In(req[r].log, "capture") /\ In(req[r].log, "pageClose")
    /\ ~In(req[r].log, "throw")

DisabledOutcome(r) ==
    IF req[r].engine \notin {"running", "crashed", "closed"} THEN Resp503
    ELSE IF Rendered(r) THEN RespResult(req[r].dims)
    ELSE Resp500

\* C12: a failure of the store (a read or a write that ends in the catch,
\* a client that is not connected) never changes the outcome of a request:
\* a failed read is treated as a miss, and the request is answered as it
\* is with the cache disabled.
C12_CacheFailureAbsorbed ==
    \A r \in ReqIds :
        /\ req[r].readErr =>
              (In(req[r].log, "cacheMiss") /\ ~In(req[r].log, "cacheHit"))
        /\ (Done(r) /\ Valid(r) /\ redisClient = "null") => req[r].resp = DisabledOutcome(r)
        /\ (Done(r) /\ (req[r].readErr \/ req[r].writeErr)) =>
              /\ req[r].resp = DisabledOutcome(r)
              /\ ~req[r].resp.cached

\* a request whose read failed on a stored entry and whose write failed
\* after the render, answered 200
C12_Witness ==
    \E r \in ReqIds :
        /\ Done(r) /\ req[r].readErr /\ req[r].writeErr
        /\ req[r].resp.status = 200
        /\ \E r2 \in ReqIds : Done(r2) /\ req[r2].readErr /\ req[r2].resp.status = 503

-----------------------------------------------------------------------------
(* Properties of shutdown (server.js:745-757) *)

\* C13: over every sequence of shutdown calls, browser.close is invoked
\* exactly once on a launched engine: never twice, and once by the time the
\* process has exited with an engine launched.
C13_EngineClosedExactlyOnce ==
    /\ closeCalls <= 1
    /\ (exited /\ browser # "null") => closeCalls = 1

-----------------------------------------------------------------------------
(* Properties of the validation (server.js:510-535) *)

\* the request has reached the cache read or gone beyond it
InPipeline(r) ==
    \/ req[r].pc = "getFromCache"
    \/ Len(req[r].log) > 0 /\ req[r].log[1] \in {"cacheHit", "cacheMiss"}

\* C14: a code of exactly 10000 characters passes validation and goes on to
\* the cache read and the render; a code of 10001 characters is answered
\* 400 with no cache read or write and no page.
C14_CodeLengthBoundary ==
    \A r \in ReqIds :
        /\ (req[r].pc # "idle" /\ Len(req[r].body.code) = 10000) =>
              (InPipeline(r) /\ req[r].resp.status # 400)
        /\ (req[r].pc # "idle" /\ Len(req[r].body.code) = 10001) =>
              /\ req[r].pc = "done" /\ req[r].resp = Resp400
              /\ req[r].log = <<"respond">>
              /\ req[r].page = "none" /\ req[r].key = ""
              /\ ~req[r].readErr /\ ~req[r].writeErr

\* a 10000-character code rendered and answered 200
C14_Witness ==
    \E r \in ReqIds :
        /\ Len(req[r].body.code) = 10000 /\ Done(r) /\ Rendered(r)
        /\ req[r].resp.status = 200

-----------------------------------------------------------------------------
(* Properties of the error responses *)

HasMessage(body) == body.error # "" \/ body.errors # <<>>

LeaksInternal(body) == body.error \in InternalMessages \/ body.message \in InternalMessages

\* C15: every error response carries success:false and a human-readable
\* message, and carries the message text of an internal error only when
\* NODE_ENV is 'development'.
C15_ErrorShape ==
    \A i \in 1..Len(eresps) :
        /\ eresps[i].success = "false"
        /\ HasMessage(eresps[i])
        /\ nodeEnv # "development" => ~LeaksInternal(eresps[i])

-----------------------------------------------------------------------------
(* Properties of the line numbering and of the rule pass (server.js:384-437) *)

\* the number of rows the script wrote
RowCount(html) ==
    Cardinality({j \in 1..Len(html) : StartsWith(html, j, "<div class=\"line\">")})

\* C16: with line numbers on, a code of k lines (k-1 newline characters) is
\* written as exactly k rows, and the rows carry the numbers 1..k.
C16_OneRowPerLine ==
    (tstage = "highlighted" /\ tdoc.scriptShowLineNumbers = "true") =>
        LET k == Len(Split(tin.code, "\n"))
        IN  /\ RowCount(thtml) = k
            /\ \A i \in 1..k :
                  Find(thtml, 1, "<span class=\"line-number\">" \o lineNumberText(i)
                                    \o "</span>") # 0

\* the number of elements open after token i of a parse
OpenAfter(toks, i) ==
    Cardinality({j \in 1..i : toks[j].k = "start"}) - Cardinality({j \in 1..i : toks[j].k = "end"})

\* text with none of the characters that start markup or a character reference
PlainText(s) == ~Contains(s, "<") /\ ~Contains(s, ">") /\ ~Contains(s, "&")

\* C17: the rules never classify twice: the output of the rule pass is the
\* text with token spans around some of its parts, no span inside another
\* and no rule having matched inside the markup of an inserted span.
C17_NoReclassification ==
    (tstage = "highlighted" /\ tdoc.scriptShowLineNumbers # "true" /\ PlainText(ttext)) =>
        LET toks == ParseHTML(thtml, 1)
        IN  /\ textContent(toks) = ttext
            /\ Elements(toks) \subseteq {"span"}
            /\ \A i \in 1..Len(toks) : OpenAfter(toks, i) \in {0, 1}
            /\ Find(thtml, 1, "token keyword") # 0 =>
                  \E w \in 1..Len(JsKeywords) : Find(ttext, 1, JsKeywords[w]) # 0

-----------------------------------------------------------------------------
(* Properties of the cache writes (server.js:613-633) *)

\* C18: only results of successful renders are written to the cache: a
\* request writes only after a whole render and is then answered 200 with
\* cached:false; a request answered 400, 503 or 500 and a request served
\* from the cache write nothing; every entry of the store is such a result.
C18_OnlyRendersWritten ==
    /\ \A k \in Keys :
          store[k] = NoEntry \/ \E b \in Boxes : store[k] = ResultEntry(b.width, b.height)
    /\ \A r \in ReqIds :
          /\ In(req[r].log, "cacheWrite") =>
                /\ Rendered(r) /\ ~In(req[r].log, "cacheHit")
                /\ Done(r) /\ req[r].resp = RespResult(req[r].dims)
          /\ (Done(r) /\ req[r].resp.status \in {400, 503, 500}) =>
                ~In(req[r].log, "cacheWrite")
          /\ In(req[r].log, "cacheHit") => ~In(req[r].log, "cacheWrite")

\* one request wrote its result, the other was served from the cache
C18_Witness ==
    \E r1, r2 \in ReqIds :
        /\ Done(r1) /\ In(req[r1].log, "cacheWrite")
        /\ Done(r2) /\ In(req[r2].log, "cacheHit") /\ req[r2].key = req[r1].key
        /\ store[req[r1].key] = ResultEntry(req[r1].dims.width, req[r1].dims.height)

-----------------------------------------------------------------------------
(* Properties of the missing container (server.js:580-595) *)

\* C19: when page.evaluate finds no .carbon-container, the request takes no
\* screenshot and writes nothing to the cache, its page is closed before
\* the response, and the response is 500 with success:false.
C19_MissingContainerIs500 ==
    \A r \in ReqIds :
        In(req[r].log, "noContainer") =>
            /\ req[r].pc \in {"catch", "done"}
            /\ ~In(req[r].log, "capture") /\ ~In(req[r].log, "cacheWrite")
            /\ Done(r) =>
                  /\ req[r].resp = Resp500 /\ ~req[r].resp.success
                  /\ req[r].page = "closed"
                  /\ IndexOf(req[r].log, "pageClose") > 0
                  /\ IndexOf(req[r].log, "pageClose") < IndexOf(req[r].log, "respond")

\* a request whose document had no container, answered 500
C19_Witness ==
    \E r \in ReqIds :
        Done(r) /\ In(req[r].log, "noContainer") /\ req[r].resp.status = 500

-----------------------------------------------------------------------------
(* Properties of the reported dimensions (server.js:598-623) *)

\* C20: the width and height of a rendered result are those of the clip
\* that was captured: at most 1920 and 1080, whatever the bounding box.
C20_ReportedEqualsClip ==
    \A r \in ReqIds :
        (Done(r) /\ Rendered(r) /\ req[r].resp.status = 200) =>
            /\ req[r].resp.width = req[r].clip.width
            /\ req[r].resp.height = req[r].clip.height
            /\ req[r].resp.width <= 1920 /\ req[r].resp.height <= 1080

-----------------------------------------------------------------------------
(* Properties of the option values the builder inserts (server.js:510-537, *)
(* 160-172, 231-242, 385)                                                  *)

\* the characters that end a CSS declaration, a rule, a style or script
\* element, or a quoted string
Delimiters == {";", "{", "}", "<", ">", "'", "\"", "\\", "\n"}

WellFormed(v) == \A i \in 1..Len(v) : Ch(v, i) \notin Delimiters

\* C21: every option value the builder inserts into CSS or script was
\* checked by request validation: a document is built only from values
\* free of delimiters, and a request with a malformed value is rejected
\* with 400 before the builder.
C21_OnlyCheckedValuesReachBuilder ==
    \A i \in 1..Len(InsertedOptions) :
        (Has(tin.options, InsertedOptions[i])
            /\ ~WellFormed(Get(tin.options, InsertedOptions[i], Str("")).v))
        => tstage # "built"

-----------------------------------------------------------------------------
(* Properties of the theme fallback (server.js:213, 244-262) *)

\* the options with the property name set to val
Put(o, name, val) ==
    [i \in 1..Len(o) |-> IF o[i][1] = name THEN <<name, val>> ELSE o[i]]

\* C22: for a theme name outside dark, light and solarized the builder
\* returns the document it returns for theme dark: the same palette colors
\* and the same container, header and border styles.
C22_UnknownThemeIsDark ==
    (tstage = "built" /\ Get(tin.options, "theme", Str("dark")).v \notin Themes)
    => tdoc = generateHTMLTemplate(tin.code, Put(tin.options, "theme", Str("dark")))

-----------------------------------------------------------------------------
(* Properties of concurrent identical requests (server.js:540-628, 471-483) *)

\* the step in which await getFromCache of request r settles
ReadStep(r) == req[r].pc = "getFromCache" /\ req'[r].pc # "getFromCache"

\* no request waits for another and none is answered from another's render
Independent ==
    \A r \in DOMAIN req :
        /\ (req[r].pc = "newPage" /\ ~exited /\ browserProc = "running")
              => ENABLED NewPageOk(r)
        /\ (Done(r) /\ In(req[r].log, "cacheMiss")) => ~req[r].resp.cached
        /\ (Done(r) /\ Rendered(r)) =>
              /\ In(req[r].log, "pageOpen") /\ req[r].page = "closed"
              /\ req[r].resp = RespResult(req[r].dims) /\ ~req[r].resp.cached
        /\ (Done(r) /\ In(req[r].log, "cacheWrite")) =>
              IndexOf(req[r].log, "cacheWrite") < IndexOf(req[r].log, "respond")

\* the store holds one entry for a key: a write replaces the value under
\* the key of the writing request, and only the TTL removes an entry
OneEntry ==
    \A k \in Keys :
        store'[k] # store[k] =>
            \/ store'[k] = NoEntry /\ req' = req
            \/ \E r \in DOMAIN req :
                  /\ req[r].pc = "setToCache" /\ req[r].key = k /\ Done(r)'
                  /\ store'[k] = ResultEntry(req[r].dims.width, req[r].dims.height)

\* a read of a connected store that holds the entry is answered from it
HitAnswered ==
    \A r \in DOMAIN req :
        (ReadStep(r) /\ store[req[r].key] # NoEntry /\ redisConn = "open"
            /\ ~req'[r].readErr)
        => req'[r].pc = "done" /\ req'[r].resp = RespCached(store[req[r].key])

\* C23: identical requests are neither serialized nor de-duplicated: a
\* request that may open its page can do so whatever the others do, each
\* that missed the cache renders on its own page, closes it and is answered
\* cached:false after its own write; the store keeps one entry per key, the
\* last written, until the TTL; and a request that reads the connected
\* store while the entry is there is answered cached:true.
C23_NoDeduplication == []Independent /\ [][OneEntry /\ HitAnswered]_vars

\* request 2 missed the connected store and has rendered on its own page
\* while request 1, which missed too, has written the entry and answered
\* cached:false; request 3, identical and started after that answer, was
\* answered cached:true
C23_Witness ==
    /\ Done(1) /\ Rendered(1) /\ In(req[1].log, "cacheWrite") /\ ~req[1].resp.cached
    /\ req[1].resp.status = 200 /\ ~req[1].readErr
    /\ req[2].pc = "setToCache" /\ Rendered(2) /\ In(req[2].log, "cacheMiss")
    /\ ~req[2].readErr /\ req[2].page = "closed"
    /\ DOMAIN req = LaterIds
    /\ Done(3) /\ In(req[3].log, "cacheHit") /\ req[3].resp.cached
    /\ req[1].key = req[2].key /\ req[2].key = req[3].key
    /\ req[1].body = req[3].body /\ req[1].body = req[2].body

-----------------------------------------------------------------------------
(* Properties of the status routes (server.js:36-54, 487-507) *)

\* C24: the cache indicator of GET /api/health and GET /api/stats says
\* connected (true) only when the connection to the store was established:
\* not without a configured store, while connecting, or after the attempt
\* failed.
C24_CacheIndicatorMeansConnected ==
    probe.cache \in {"connected", "true"} => probe.conn = "open"

-----------------------------------------------------------------------------
(* Properties of shutdown beside requests in flight (server.js:745-757,    *)
(* 552-611, 774-782)                                                       *)

ShutdownBegun == \E s \in ShutIds : shut[s] # "idle"

\* while the process lives, the engine is not closed under an open page and
\* the flag is not true for a closed engine
EngineKept ==
    (browserProc = "closed" /\ ~exited) =>
        /\ \A r \in ReqIds : req[r].page # "open"
        /\ ~isBrowserReady

\* a step that opens a page is taken before any shutdown() call
NoPageAfterShutdown ==
    \A r \in ReqIds :
        (req[r].page # "open" /\ req'[r].page = "open") => ~ShutdownBegun

\* C25: shutdown does not pull the engine from under work in flight: the
\* shared browser is never closed while a request has an open page, no
\* request opens a page after shutdown has begun, and isBrowserReady is not
\* true for a closed engine.
C25_ShutdownSparesInFlight == []EngineKept /\ [][NoPageAfterShutdown]_vars

=============================================================================
